---- MODULE Spec2Model ----
(***************************************************************************)
(* Request-scoped database access layer of the TDC backend                 *)
(* (backend/app/utils/db.py): the process-wide connection pool, the        *)
(* per-request connection slot kept in Flask's g, the transactional cursor *)
(* scope and the connectivity probe.                                       *)
(*                                                                         *)
(* The MySQL driver (mysql.connector) is the environment.  Each call into  *)
(* it either succeeds or raises; which one is an input of the action.  The *)
(* pool is mysql.connector.pooling.MySQLConnectionPool: a FIFO queue of    *)
(* pool_size connections, get_connection() takes the head without waiting  *)
(* and raises PoolError when the queue is empty; close() on a pooled       *)
(* connection resets the session and puts it back at the tail.             *)
(***************************************************************************)
EXTENDS Integers, Sequences, FiniteSets, TLC

\* ------------------------------------------------------------------ bounds
\* Concurrent workers, each running one unit of work (app context) at a time.
NumWorkers == 2
\* DB_POOL_SIZE of the configuration (read from the environment).
PoolSize == 1
\* Pools constructed, that is successful calls of init_pool.
MaxInits == 2

\* 'connection_timeout': 30 of pool_config.
CONNECTION_TIMEOUT == 30

Workers == 1..NumWorkers
PoolIds == 1..MaxInits
\* A physical connection: <<pool, index>>.
Conns == PoolIds \X (1..PoolSize)
\* 'db_conn' not in g.
NoConn == <<0, 0>>
\* _pool = None
None == 0

\* ------------------------------------------------------------ exceptions
\* Subclasses of mysql.connector.Error.
MySQLErrors ==
    {"PoolError", "ConnectError", "CursorError", "BodyDbError", "CommitError",
     "RollbackError", "CursorCloseError", "CloseError"}
\* Subclasses of Exception (what `except Exception` catches).
Exceptions == MySQLErrors \cup {"RuntimeError", "BodyError", "CloseOtherError"}
\* BaseException that is no Exception: SystemExit, KeyboardInterrupt, GeneratorExit.
BaseOnly == {"BodyExit"}

VARIABLES
    app,        \* the application create_app built: what it has registered
    pool,       \* _pool: None, or the current pool (the n-th pool constructed)
    inits,      \* init_pool so far: "never" called, every call "failed", one returned "ok"
    queue,      \* queue[p]: the idle connections of pool p, FIFO
    closed,     \* physical connections whose socket has been closed
    g,          \* g[w]: the db_conn slot of worker w's app context
    pc,         \* pc[w]: "idle", "active" (inside a unit of work), "torn" (teardown ran)
    checkouts,  \* checkouts[w]: pool checkouts in w's current unit of work
    returns,    \* returns[w]: conn.close() calls in w's current unit of work
    first,      \* first[w]: the connection w's unit of work was first given, until its teardown
    last        \* the last operation: who ran what, and what its caller observed

vars == <<app, pool, inits, queue, closed, g, pc, checkouts, returns, first, last>>

\* last: w ran op; its caller saw it raise `raised` ("none": it returned) and
\* return `value`; inside, `inner` was raised; get_connection gave `conn` after
\* waiting `waited` seconds, the slot being `bound` before the call; the scope
\* made the calls of `log` around a body that ended `body`; fetchone gave `row`;
\* the teardown was passed the exception `e`; the view answered `resp`;
\* conn.commit() ended `commit` ("none": the scope did not call it).
NoResponse == [status |-> 0, body |-> <<>>]

NoOp ==
    [w |-> 0, op |-> "none", raised |-> "none", inner |-> "none", value |-> FALSE,
     conn |-> NoConn, log |-> <<>>, body |-> "none", row |-> <<>>, waited |-> 0,
     bound |-> FALSE, e |-> "none", resp |-> NoResponse, commit |-> "none"]

\* -------------------------------------------------------------- the pool
\* MySQLConnectionPool(**pool_config): pool_size connections are opened and queued.
NewQueue(p) == [i \in 1..PoolSize |-> <<p, i>>]

\* An init_pool that binds _pool before the pool's connections are opened, so
\* that a constructor that raises leaves _pool naming a pool without connections.
init_pool_binds_first(ok) ==
    IF ok
    THEN [pool |-> pool + 1, queue |-> [queue EXCEPT ![pool + 1] = NewQueue(pool + 1)],
          raised |-> "none"]
    ELSE [pool |-> pool + 1, queue |-> queue, raised |-> "ConnectError"]

\* init_pool: on success _pool is rebound to the new pool; when the constructor
\* raises, the assignment never happens and the error is re-raised.
init_pool(ok) ==
    IF ok
    THEN [pool |-> pool + 1, queue |-> [queue EXCEPT ![pool + 1] = NewQueue(pool + 1)],
          raised |-> "none"]
    ELSE [pool |-> pool, queue |-> queue, raised |-> "ConnectError"]

\* A pool whose get_connection waits connection_timeout seconds for a connection
\* to be returned before it gives up.
PoolGetBlocking(q, connects) ==
    IF q = <<>>
    THEN [raised |-> "PoolError", conn |-> NoConn, q |-> q, waited |-> CONNECTION_TIMEOUT]
    ELSE IF ~connects
    THEN [raised |-> "ConnectError", conn |-> NoConn, q |-> Tail(q) \o <<Head(q)>>,
          waited |-> 0]
    ELSE [raised |-> "none", conn |-> Head(q), q |-> Tail(q), waited |-> 0]

\* _pool.get_connection(), called without arguments: the head of the queue,
\* without waiting (waited is 0 on every path); PoolError when the queue is
\* empty; a connection that cannot be re-established is queued again and the
\* error raised.  connection_timeout of pool_config is handed to the driver's
\* connections, where it bounds opening a socket to the server; the checkout
\* takes no timeout.
PoolGet(q, connects) ==
    IF q = <<>>
    THEN [raised |-> "PoolError", conn |-> NoConn, q |-> q, waited |-> 0]
    ELSE IF ~connects
    THEN [raised |-> "ConnectError", conn |-> NoConn, q |-> Tail(q) \o <<Head(q)>>,
          waited |-> 0]
    ELSE [raised |-> "none", conn |-> Head(q), q |-> Tail(q), waited |-> 0]

\* A get_connection that never looks at the slot.
InSlotNever(w) == FALSE

\* 'db_conn' in g
InSlot(w) == g[w] # NoConn

\* get_connection: the slot's connection if there is one, else a checkout stored
\* in the slot.
get_connection(w, connects) ==
    IF InSlot(w)
    THEN [raised |-> "none", conn |-> g[w], g |-> g, queue |-> queue, checked |-> 0,
          waited |-> 0]
    ELSE IF pool = None
    THEN [raised |-> "RuntimeError", conn |-> NoConn, g |-> g, queue |-> queue,
          checked |-> 0, waited |-> 0]
    ELSE LET r == PoolGet(queue[pool], connects) IN
         IF r.raised # "none"
         THEN [raised |-> r.raised, conn |-> NoConn, g |-> g,
               queue |-> [queue EXCEPT ![pool] = r.q], checked |-> 0,
               waited |-> r.waited]
         ELSE [raised |-> "none", conn |-> r.conn, g |-> [g EXCEPT ![w] = r.conn],
               queue |-> [queue EXCEPT ![pool] = r.q], checked |-> 1,
               waited |-> r.waited]

\* A teardown that reads the slot and leaves the connection in it.
PoppedKept(w) == g

\* g after g.pop('db_conn', None)
Popped(w) == [g EXCEPT ![w] = NoConn]

\* close_connection: pops the slot; a popped connection is closed, which puts it
\* back in the queue of the pool it came from (also when the session reset
\* raises).  e is the exception the teardown is passed (ignored); out is what
\* conn.close() does: "ok" or the error it raises.  Only mysql.connector.Error
\* is caught (and logged).
close_connection(w, e, out) ==
    LET conn == g[w] IN
    IF conn = NoConn
    THEN [raised |-> "none", g |-> Popped(w), queue |-> queue, closes |-> 0]
    ELSE [raised |-> IF out = "ok" \/ out \in MySQLErrors THEN "none" ELSE out,
          g |-> Popped(w),
          queue |-> [queue EXCEPT ![conn[1]] = Append(@, conn)],
          closes |-> 1]

\* ------------------------------------------------------ the cursor scope
\* What the driver does in one scope: whether the checkout can (re)connect, and
\* for conn.cursor(), conn.commit(), conn.rollback() and cursor.close() either
\* "ok" or the error the call raises.  An outcome other than "ok" is listed only
\* for a call the scope makes.
Made(x, body) ==
    /\ (x.cursor # "ok" => x.commit = "ok" /\ x.rollback = "ok" /\ x.close = "ok")
    /\ (body # "ok" => x.commit = "ok")
    /\ (body \notin Exceptions /\ x.commit = "ok" => x.rollback = "ok")

Drivers ==
    [connects : BOOLEAN, cursor : {"ok", "CursorError"}, commit : {"ok", "CommitError"},
     rollback : {"ok", "RollbackError"}, close : {"ok", "CursorCloseError"}]

\* A handler written `except mysql.connector.Error:`.
CaughtDriverOnly(err) == err \in MySQLErrors

\* except Exception:
Caught(err) == err \in Exceptions

\* The try / except Exception / finally of get_cursor around a body that ends
\* "ok" or raises body: commit after a body that completed; rollback and re-raise
\* when the body or the commit raised an Exception; cursor.close() on every path.
\* An error raised by rollback or by cursor.close() replaces the one in flight.
Scope(body, x) ==
    LET err1 == IF body = "ok" THEN x.commit ELSE body
        rolls == Caught(err1)
        err2 == IF rolls /\ x.rollback # "ok" THEN x.rollback ELSE err1
        err3 == IF x.close # "ok" THEN x.close ELSE err2
    IN [raised |-> IF err3 = "ok" THEN "none" ELSE err3,
        commit |-> IF body = "ok" THEN x.commit ELSE "none",
        log |-> <<"body">> \o (IF body = "ok" THEN <<"commit">> ELSE <<>>)
                \o (IF rolls THEN <<"rollback">> ELSE <<>>) \o <<"close">>]

\* get_cursor: the slot's connection, a cursor on it, then the scope.  An error of
\* get_connection or of conn.cursor() propagates before the body is entered.
get_cursor(w, x, body) ==
    LET c == get_connection(w, x.connects) IN
    IF c.raised # "none"
    THEN c @@ [log |-> <<>>, body |-> "none", commit |-> "none"]
    ELSE IF x.cursor # "ok"
    THEN [c EXCEPT !.raised = x.cursor]
         @@ [log |-> <<"cursor">>, body |-> "none", commit |-> "none"]
    ELSE LET s == Scope(body, x) IN
         [c EXCEPT !.raised = s.raised]
         @@ [log |-> <<"cursor">> \o s.log, body |-> body, commit |-> s.commit]

\* fetch_one: a scope whose body is cursor.execute(query, params) and
\* cursor.fetchone(); row is what fetchone gives, <<>> for None.
fetch_one(w, x, body, row) ==
    LET r == get_cursor(w, x, body) IN
    r @@ [row |-> IF r.raised = "none" THEN row ELSE <<>>]

\* A probe that is content with any row.
SentinelAnyRow(row) == row # <<>>

\* result is not None and result.get('connected') == 1
Sentinel(row) == row # <<>> /\ row[1] = 1

\* test_connection: fetch_one("SELECT 1 as connected"); true when there is a row
\* whose 'connected' is 1; any Exception is logged and gives False.
test_connection(w, x, body, row) ==
    LET r == fetch_one(w, x, body, row) IN
    IF r.raised = "none"
    THEN r @@ [value |-> Sentinel(r.row), inner |-> "none"]
    ELSE IF r.raised \in Exceptions
    THEN [r EXCEPT !.raised = "none"] @@ [value |-> FALSE, inner |-> r.raised]
    ELSE r @@ [value |-> FALSE, inner |-> r.raised]

\* ------------------------------------------------------- the application
\* No application yet: nothing is registered.
NoApp == [teardown |-> FALSE, routes |-> {}]

\* The rules of the health blueprint, which register_api_routes registers
\* under the API blueprint.
HealthRoutes == {"/health", "/health/db", "/health/full"}

\* A create_app whose handler around init_pool lets the error through.
SwallowedNever(err) == FALSE

\* `except Exception as e:` around init_pool(app): logged, not raised again.
Swallowed(err) == err \in Exceptions

\* create_app: init_pool inside try/except, then the teardown hook and the
\* blueprints are registered and the app is returned.  `inner` is what
\* init_pool raised; if it gets past the handler nothing below it runs and the
\* caller has no app.
create_app(ok) ==
    LET r == init_pool(ok)
        out == IF r.raised = "none" \/ Swallowed(r.raised) THEN "none" ELSE r.raised
    IN [raised |-> out, inner |-> r.raised, pool |-> r.pool, queue |-> r.queue,
        app |-> IF out = "none" THEN [teardown |-> TRUE, routes |-> HealthRoutes]
                ELSE app]

\* success(data): {"success": True, "data": data} with status 200.
success(data) == [status |-> 200, body |-> [success |-> TRUE, data |-> data]]

\* error(message, status_code): {"success": False, "error": message}.
error(message, status_code) ==
    [status |-> status_code, body |-> [success |-> FALSE, error |-> message]]

\* health_check_db, from db_ok = test_connection() on: the probe decides the
\* answer (the timestamp of the success payload is left out).
health_check_db(db_ok) ==
    IF db_ok THEN success([status |-> "ok", database |-> "connected"])
    ELSE error("Database connection failed", 503)

\* ----------------------------------------------------------------- actions
Init ==
    /\ app = NoApp
    /\ pool = None
    /\ inits = "never"
    /\ queue = [p \in PoolIds |-> <<>>]
    /\ closed = {}
    /\ g = [w \in Workers |-> NoConn]
    /\ pc = [w \in Workers |-> "idle"]
    /\ checkouts = [w \in Workers |-> 0]
    /\ returns = [w \in Workers |-> 0]
    /\ first = [w \in Workers |-> NoConn]
    /\ last = NoOp

\* create_app calls init_pool (and swallows its error).
InitPool(ok) ==
    /\ pool < MaxInits
    /\ LET r == create_app(ok) IN
       /\ app' = r.app
       /\ pool' = r.pool
       /\ queue' = r.queue
       /\ inits' = IF r.inner = "none" THEN "ok" ELSE IF inits = "ok" THEN "ok" ELSE "failed"
       /\ last' = [NoOp EXCEPT !.op = "create_app", !.raised = r.raised,
                               !.inner = r.inner]
    /\ UNCHANGED <<closed, g, pc, checkouts, returns, first>>

\* An app context is pushed: a fresh g.
BeginUnit(w) ==
    /\ pc[w] = "idle"
    /\ pc' = [pc EXCEPT ![w] = "active"]
    /\ g' = [g EXCEPT ![w] = NoConn]
    /\ checkouts' = [checkouts EXCEPT ![w] = 0]
    /\ returns' = [returns EXCEPT ![w] = 0]
    /\ first' = [first EXCEPT ![w] = NoConn]
    /\ last' = [NoOp EXCEPT !.w = w, !.op = "begin"]
    /\ UNCHANGED <<app, pool, inits, queue, closed>>

\* The driver is asked to connect only by a checkout from a queue that holds a
\* connection, and the rest of a scope runs only after get_connection returned.
Asked(w, connects) ==
    connects \/ (g[w] = NoConn /\ pool # None /\ queue[pool] # <<>>)

Entered(w, x, body, row) ==
    get_connection(w, x.connects).raised = "none"
    \/ (x.cursor = "ok" /\ x.commit = "ok" /\ x.rollback = "ok" /\ x.close = "ok"
        /\ body = "ok" /\ row = <<>>)

\* What every operation that goes through get_connection does to the counters.
Account(w, r) ==
    /\ g' = r.g
    /\ queue' = r.queue
    /\ checkouts' = [checkouts EXCEPT ![w] = @ + r.checked]
    /\ first' = [first EXCEPT ![w] = IF @ = NoConn THEN r.conn ELSE @]

GetConnection(w, connects) ==
    /\ pc[w] = "active"
    /\ Asked(w, connects)
    /\ LET r == get_connection(w, connects) IN
       /\ Account(w, r)
       /\ last' = [NoOp EXCEPT !.w = w, !.op = "get_connection", !.raised = r.raised,
                               !.inner = r.raised, !.conn = r.conn,
                               !.waited = r.waited, !.bound = (g[w] # NoConn)]
    /\ UNCHANGED <<app, pool, inits, closed, pc, returns>>

\* The teardown_appcontext hook, and any further call of it before the context is gone.
CloseConnection(w, e, out) ==
    /\ pc[w] \in {"active", "torn"}
    /\ (g[w] = NoConn => out = "ok")
    /\ LET r == close_connection(w, e, out) IN
       /\ g' = r.g
       /\ queue' = r.queue
       /\ returns' = [returns EXCEPT ![w] = @ + r.closes]
       /\ last' = [NoOp EXCEPT !.w = w, !.op = "close_connection", !.raised = r.raised,
                               !.inner = IF r.closes = 1 THEN out ELSE "none",
                               !.bound = (g[w] # NoConn), !.e = e]
    /\ pc' = [pc EXCEPT ![w] = "torn"]
    /\ first' = [first EXCEPT ![w] = NoConn]
    /\ UNCHANGED <<app, pool, inits, closed, checkouts>>

\* The app context is popped: g and what it held are gone.
EndUnit(w) ==
    /\ pc[w] = "torn"
    /\ pc' = [pc EXCEPT ![w] = "idle"]
    /\ g' = [g EXCEPT ![w] = NoConn]
    /\ checkouts' = [checkouts EXCEPT ![w] = 0]
    /\ returns' = [returns EXCEPT ![w] = 0]
    /\ first' = [first EXCEPT ![w] = NoConn]
    /\ last' = [NoOp EXCEPT !.w = w, !.op = "end"]
    /\ UNCHANGED <<app, pool, inits, queue, closed>>

\* A caller's `with get_cursor() as cursor:` block (fetch_all, execute and
\* execute_many are such blocks); body is how the block ends.
GetCursor(w, x, body) ==
    /\ pc[w] = "active"
    /\ Asked(w, x.connects)
    /\ Entered(w, x, body, <<>>)
    /\ LET r == get_cursor(w, x, body) IN
       /\ Account(w, r)
       /\ last' = [NoOp EXCEPT !.w = w, !.op = "get_cursor", !.raised = r.raised,
                               !.inner = r.raised, !.conn = r.conn, !.log = r.log,
                               !.body = r.body, !.waited = r.waited,
                               !.bound = (g[w] # NoConn), !.commit = r.commit]
    /\ UNCHANGED <<app, pool, inits, closed, pc, returns>>

\* health_check_db / health_check_full call test_connection.
TestConnection(w, x, body, row) ==
    /\ pc[w] = "active"
    /\ Asked(w, x.connects)
    /\ Entered(w, x, body, row)
    /\ LET r == test_connection(w, x, body, row) IN
       /\ Account(w, r)
       /\ last' = [NoOp EXCEPT !.w = w, !.op = "test_connection", !.raised = r.raised,
                               !.inner = r.inner, !.value = r.value, !.conn = r.conn,
                               !.log = r.log, !.body = r.body, !.row = r.row,
                               !.waited = r.waited, !.bound = (g[w] # NoConn)]
    /\ UNCHANGED <<app, pool, inits, closed, pc, returns>>

\* GET /health/db: the view runs in the request's app context; it answers
\* unless the probe let an error through.
HealthCheckDb(w, x, body, row) ==
    /\ "/health/db" \in app.routes
    /\ pc[w] = "active"
    /\ Asked(w, x.connects)
    /\ Entered(w, x, body, row)
    /\ \E r \in {test_connection(w, x, body, row)} :
       /\ Account(w, r)
       /\ last' = [NoOp EXCEPT !.w = w, !.op = "health_check_db", !.raised = r.raised,
                               !.inner = r.inner, !.value = r.value, !.conn = r.conn,
                               !.log = r.log, !.body = r.body, !.row = r.row,
                               !.waited = r.waited, !.bound = (g[w] # NoConn),
                               !.resp = IF r.raised = "none" THEN health_check_db(r.value)
                                        ELSE NoResponse]
    /\ UNCHANGED <<app, pool, inits, closed, pc, returns>>

\* The connections of a pool.
ConnsOf(p) == {p} \X (1..PoolSize)

\* A pool that _pool no longer names and no slot holds a connection of is
\* garbage; when the interpreter collects it, its sockets are closed.
Collect(p) ==
    /\ p < pool
    /\ \A w \in Workers : g[w] = NoConn \/ g[w][1] # p
    /\ ~(ConnsOf(p) \subseteq closed)
    /\ closed' = closed \cup ConnsOf(p)
    /\ queue' = [queue EXCEPT ![p] = <<>>]
    /\ last' = [NoOp EXCEPT !.op = "collect"]
    /\ UNCHANGED <<app, pool, inits, g, pc, checkouts, returns, first>>

\* What conn.close() of a pooled connection can do: return normally, raise a
\* mysql.connector.Error, raise another Exception.
CloseOutcomes == {"ok", "CloseError", "CloseOtherError"}

\* What the teardown is passed: None, or the exception the unit of work ended with.
TeardownArgs == {"none", "BodyError"}

\* The bodies a caller's block can end with: normally, with a driver error, with
\* another Exception, with a BaseException that is no Exception.  The probe's
\* body is cursor.execute and cursor.fetchone, which return or raise a driver
\* error; fetchone gives no row, or a row whose 'connected' is 0 or 1.
Bodies == {"ok", "BodyDbError", "BodyError", "BodyExit"}
ProbeBodies == {"ok", "BodyDbError"}
Rows == {<<>>, <<0>>, <<1>>}
Blocks ==
    {b \in [x : Drivers, body : Bodies] :
        Made(b.x, b.body) /\ (b.x.cursor # "ok" => b.body = "ok")}
Probes ==
    {p \in [x : Drivers, body : ProbeBodies, row : Rows] :
        /\ Made(p.x, p.body)
        /\ (p.x.cursor # "ok" => p.body = "ok")
        /\ (p.x.cursor # "ok" \/ p.body # "ok" => p.row = <<>>)}

\* The whole layer: every worker may run every operation.
Next ==
    \/ \E ok \in BOOLEAN : InitPool(ok)
    \/ \E w \in Workers : BeginUnit(w)
    \/ \E w \in Workers, connects \in BOOLEAN : GetConnection(w, connects)
    \/ \E w \in Workers, e \in TeardownArgs, out \in CloseOutcomes :
          CloseConnection(w, e, out)
    \/ \E w \in Workers : EndUnit(w)
    \/ \E w \in Workers, b \in Blocks : GetCursor(w, b.x, b.body)
    \/ \E w \in Workers, p \in Probes : TestConnection(w, p.x, p.body, p.row)
    \/ \E w \in Workers, p \in Probes : HealthCheckDb(w, p.x, p.body, p.row)
    \/ \E p \in PoolIds : Collect(p)

Spec == Init /\ [][Next]_vars

\* The pool and the slots under concurrency: every worker checks out and tears
\* down.  A cursor scope touches the pool and the slot only through its
\* get_connection, so the scopes are left to SpecScope.
NextPool ==
    \/ \E ok \in BOOLEAN : InitPool(ok)
    \/ \E w \in Workers : BeginUnit(w)
    \/ \E w \in Workers, connects \in BOOLEAN : GetConnection(w, connects)
    \/ \E w \in Workers, e \in TeardownArgs, out \in CloseOutcomes :
          CloseConnection(w, e, out)
    \/ \E w \in Workers : EndUnit(w)
    \/ \E p \in PoolIds : Collect(p)

SpecPool == Init /\ [][NextPool]_vars

\* One worker's units of work with every operation of the layer: the scopes and
\* the probe act on the worker's own slot and connection only.
ScopeWorkers == {w \in Workers : w = 1}

NextScope ==
    \/ \E ok \in BOOLEAN : InitPool(ok)
    \/ \E w \in ScopeWorkers : BeginUnit(w)
    \/ \E w \in ScopeWorkers, connects \in BOOLEAN : GetConnection(w, connects)
    \/ \E w \in ScopeWorkers, e \in TeardownArgs, out \in CloseOutcomes :
          CloseConnection(w, e, out)
    \/ \E w \in ScopeWorkers : EndUnit(w)
    \/ \E w \in ScopeWorkers, b \in Blocks : GetCursor(w, b.x, b.body)
    \/ \E w \in ScopeWorkers, p \in Probes : TestConnection(w, p.x, p.body, p.row)
    \/ \E w \in ScopeWorkers, p \in Probes : HealthCheckDb(w, p.x, p.body, p.row)
    \/ \E p \in PoolIds : Collect(p)

SpecScope == Init /\ [][NextScope]_vars

\* ------------------------------------------------------------- properties
\* The operations that go through get_connection.
ConnOps == {"get_connection", "get_cursor", "test_connection", "health_check_db"}

\* How many times the scope made the call ev.
Count(ev, log) == Cardinality({i \in 1..Len(log) : log[i] = ev})

\* The pools that exist: constructed and not collected.
Live == {p \in 1..pool : ~(ConnsOf(p) \subseteq closed)}

\* The slots that hold the connection c.
Holders(c) == {w \in Workers : g[w] = c}

\* C1: within one unit of work the calls of get_connection, direct or through
\* get_cursor, the query helpers and test_connection, check out of the pool at
\* most once, and every call that finds the slot bound performs no checkout and
\* returns the connection the unit of work was first given, which is the one in
\* the slot.
C1_OneCheckoutPerUnit ==
    /\ \A w \in Workers :
          /\ checkouts[w] <= 1
          /\ (pc[w] = "active" => g[w] = first[w])
          /\ (pc[w] = "active" /\ g[w] # NoConn => checkouts[w] = 1)
    /\ (last.op \in ConnOps /\ last.conn # NoConn => last.conn = first[last.w])
    /\ (last.op \in ConnOps /\ last.bound =>
            last.conn # NoConn /\ last.conn = first[last.w])

\* C1's case: a second or later call in the unit of work, made through the
\* probe, got the unit's connection with one checkout in all.
C1_Witness ==
    /\ last.op = "test_connection"
    /\ last.bound
    /\ last.conn = g[last.w]
    /\ checkouts[last.w] = 1

\* C2: conn.close(), the return to the pool, is called at most once per unit of
\* work; once the teardown has run it has been called exactly once if a
\* connection was bound and not at all if none was, whatever exception the
\* teardown was passed and however many times it runs; and every connection of a
\* live pool is in its pool's queue or in a slot, exactly once.
C2_ReturnedExactlyOnce ==
    /\ \A w \in Workers :
          /\ returns[w] <= 1
          /\ (pc[w] = "active" => returns[w] = 0)
          /\ (pc[w] = "torn" => returns[w] = checkouts[w] /\ g[w] = NoConn)
    /\ \A p \in Live : \A c \in ConnsOf(p) :
          Count(c, queue[p]) + Cardinality(Holders(c)) = 1

\* C2's case: the teardown of a unit of work that ended with an error ran a
\* second time, found nothing bound, and the unit's connection has been returned
\* once.
C2_Witness ==
    /\ last.op = "close_connection"
    /\ last.e # "none"
    /\ ~last.bound
    /\ pc[last.w] = "torn"
    /\ checkouts[last.w] = 1
    /\ returns[last.w] = 1

\* The scope of the last operation was entered and its body raised.
BodyRaised == last.op \in {"get_cursor", "test_connection"} /\ last.body \notin {"none", "ok"}

C4_CallerSeesBodyError ==
    last.op = "get_cursor" /\ last.body \notin {"none", "ok"} => last.raised = last.body

\* C5: close_connection never raises: whatever conn.close() raises is caught and
\* logged.
C5_TeardownNeverRaises ==
    last.op = "close_connection" => last.raised = "none"

\* C6: no physical connection is in two slots at once, a connection in a slot is
\* in no queue (its worker owns it until its teardown returns it), and a
\* connection get_connection hands to a worker is in no other worker's slot;
\* also with more workers than the pool has connections.
C6_ExclusiveOwnership ==
    /\ \A c \in Conns : Cardinality(Holders(c)) <= 1
    /\ \A c \in Conns : Holders(c) # {} => Count(c, queue[c[1]]) = 0
    /\ (last.op \in ConnOps /\ last.conn # NoConn => Holders(last.conn) = {last.w})

\* C6's case: more workers than connections, every connection of the pool in a
\* slot, and a worker that asked for one was given none.
C6_Witness ==
    /\ NumWorkers > PoolSize
    /\ pool # None
    /\ \A c \in ConnsOf(pool) : Holders(c) # {}
    /\ last.op = "get_connection"
    /\ last.raised = "PoolError"
    /\ g[last.w] = NoConn

\* The step is a call through get_connection, by a worker whose slot is empty,
\* while the pool exists and its queue is empty.
ExhaustedCheckout ==
    /\ last'.op \in ConnOps
    /\ g[last'.w] = NoConn
    /\ pool # None
    /\ queue[pool] = <<>>

C8_NoLeakOnReinit ==
    \A p \in 1..pool : p # pool => ConnsOf(p) \subseteq closed

\* C9: as long as no call of init_pool has returned normally (none was made, or
\* every one raised), no slot holds a connection, nothing has been checked out,
\* and every call through get_connection ends in the RuntimeError "Database pool
\* not initialized".
C9_NotInitialized ==
    inits # "ok" =>
        /\ pool = None
        /\ \A w \in Workers : g[w] = NoConn /\ checkouts[w] = 0
        /\ (last.op \in ConnOps =>
                last.inner = "RuntimeError" /\ last.conn = NoConn /\ last.waited = 0)
        /\ (last.op \in {"get_connection", "get_cursor"} => last.raised = "RuntimeError")

\* C9's case: init_pool was called and raised every time, and a scope that then
\* asked for a connection got the RuntimeError.
C9_Witness ==
    /\ inits = "failed"
    /\ last.op = "get_cursor"
    /\ last.raised = "RuntimeError"
    /\ checkouts[last.w] = 0

\* The probe's scope ran to its end: cursor, body, commit, cursor.close().
ProbeClean == last.log = <<"cursor", "body", "commit", "close">>

\* C10: test_connection raises nothing; it returns True exactly when the probe
\* ran to its end without an error and fetched a row whose 'connected' is 1, and
\* False in every other case: pool not initialized, checkout failure, cursor or
\* query failure, commit, rollback or cursor.close() failure, no row, another
\* value.
C10_ProbeIsBoolean ==
    last.op = "test_connection" =>
        /\ last.raised = "none"
        /\ (last.value <=> (last.inner = "none" /\ last.row = <<1>>))
        /\ (last.value => ProbeClean /\ last.conn # NoConn /\ last.conn = g[last.w])
        /\ (last.inner # "none" => ~last.value)

\* C10's case: the probe's query succeeded and gave the row, the commit raised,
\* and the probe returned False.
C10_Witness ==
    /\ last.op = "test_connection"
    /\ last.inner = "CommitError"
    /\ last.body = "ok"
    /\ last.raised = "none"
    /\ ~last.value

C11_WitnessUp ==
    /\ inits = "ok"
    /\ last.op = "health_check_db"
    /\ last.value
    /\ last.resp.status = 200

\* A get_cursor scope whose body completed and whose conn.commit() raised.
CommitRaised ==
    last.op = "get_cursor" /\ last.body = "ok" /\ last.commit \notin {"none", "ok"}

\* C12: when the body of a get_cursor scope completes and the commit raises, the
\* scope calls conn.rollback() once and cursor.close() once, its caller observes
\* the commit's error, and the connection is still in the slot of the unit of
\* work, which has not been torn down.
C12_CommitErrorPropagates ==
    CommitRaised =>
        /\ Count("commit", last.log) = 1
        /\ Count("rollback", last.log) = 1
        /\ Count("close", last.log) = 1
        /\ last.raised = last.commit
        /\ last.conn # NoConn
        /\ g[last.w] = last.conn
        /\ pc[last.w] = "active"
        /\ returns[last.w] = 0

\* What holds of C12 in the code: one rollback, one close of the cursor, the
\* connection still bound, and the caller observing an error: the commit's,
\* unless rollback or cursor.close() raised one of its own.
C12_CleanupOnCommitError ==
    CommitRaised =>
        /\ last.log = <<"cursor", "body", "commit", "rollback", "close">>
        /\ last.raised \in {last.commit, "RollbackError", "CursorCloseError"}
        /\ last.conn # NoConn
        /\ g[last.w] = last.conn
        /\ pc[last.w] = "active"
        /\ returns[last.w] = 0

\* C12's case with a clean rollback and close: the commit's error reached the caller.
C12_Reached ==
    CommitRaised /\ last.raised = "CommitError"
====
